---------------------------- MODULE Spec2Model ----------------------------
(***************************************************************************)
(* Heavy-ion experimental-data catalogue: the typed observable classes of  *)
(* scripts/database.py, the store written by populate_database, the read   *)
(* path of scripts/query_and_plot.py and the ingestion of                  *)
(* scripts/populate_db.py.                                                 *)
(*                                                                         *)
(* Python values are modelled with their type: a list is PyList(items), an *)
(* int is PyInt(n), a str is a sequence of characters PyStr(chars), a dict *)
(* is PyDict(items), an ndarray carries its number of dimensions.  Text    *)
(* written by json.dumps / str is a sequence of one-character strings, so  *)
(* that encoding and decoding are computed, not assumed.                   *)
(*                                                                         *)
(* A run of database.py is its constructor call followed by                *)
(* populate_database() on the object built (the global the call at line    *)
(* 326 names).  Each script run is a process; a run that raises ends, and  *)
(* the connection it left open is finalised with the interpreter.          *)
(***************************************************************************)
EXTENDS Integers, Sequences, FiniteSets, TLC

(***************************************************************************)
(* Bounds of the model.                                                    *)
(***************************************************************************)
MaxLaunches == 3

(***************************************************************************)
(* Python values.                                                          *)
(***************************************************************************)
PyInt(n) == [t |-> "int", n |-> n]

PyList(items) == [t |-> "list", items |-> items]

PyStr(chars) == [t |-> "str", chars |-> chars]

PyDict(pairs) == [t |-> "dict", pairs |-> pairs]

\* numpy.ndarray of integers: ndim and the nested data
NdArray(ndim, data) == [t |-> "ndarray", ndim |-> ndim, data |-> data]

\* a plain Python list given where the code expects an ndarray
PlainList(ndim, data) == [t |-> "pylist", ndim |-> ndim, data |-> data]

RECURSIVE Nest(_, _)
Nest(data, ndim) ==
    IF ndim = 0 THEN PyInt(data)
    ELSE PyList([i \in 1..Len(data) |-> Nest(data[i], ndim - 1)])

\* ndarray.tolist(): the array as nested lists of Python ints
tolist(a) == Nest(a.data, a.ndim)

\* len(x) of an ndarray or list
PyLen(a) == Len(a.data)

(***************************************************************************)
(* json.dumps and json.loads on nested lists of ints.                      *)
(***************************************************************************)
DigitSeq == <<"0", "1", "2", "3", "4", "5", "6", "7", "8", "9">>

RECURSIVE Digits(_)
Digits(n) ==
    IF n < 10 THEN <<DigitSeq[n + 1]>>
    ELSE Digits(n \div 10) \o <<DigitSeq[(n % 10) + 1]>>

IntText(n) == IF n < 0 THEN <<"-">> \o Digits(-n) ELSE Digits(n)

RECURSIVE JsonDumps(_)
RECURSIVE JoinItems(_, _)
JoinItems(items, i) ==
    IF i > Len(items) THEN <<>>
    ELSE (IF i > 1 THEN <<",", " ">> ELSE <<>>)
         \o JsonDumps(items[i]) \o JoinItems(items, i + 1)

JsonDumps(v) ==
    IF v.t = "int" THEN IntText(v.n)
    ELSE <<"[">> \o JoinItems(v.items, 1) \o <<"]">>

IsDigit(c) == \E d \in 1..10 : DigitSeq[d] = c

DigitVal(c) == (CHOOSE d \in 1..10 : DigitSeq[d] = c) - 1

RECURSIVE ParseDigits(_, _, _)
ParseDigits(text, i, acc) ==
    IF i <= Len(text) /\ IsDigit(text[i])
    THEN ParseDigits(text, i + 1, 10 * acc + DigitVal(text[i]))
    ELSE [v |-> acc, i |-> i]

ParseNumber(text, i) ==
    IF text[i] = "-"
    THEN LET r == ParseDigits(text, i + 1, 0) IN [v |-> PyInt(-r.v), i |-> r.i]
    ELSE LET r == ParseDigits(text, i, 0) IN [v |-> PyInt(r.v), i |-> r.i]

RECURSIVE ParseValue(_, _)
RECURSIVE ParseList(_, _, _)
ParseList(text, i, acc) ==
    IF text[i] = "]" THEN [v |-> PyList(acc), i |-> i + 1]
    ELSE IF text[i] = "," \/ text[i] = " " THEN ParseList(text, i + 1, acc)
    ELSE LET r == ParseValue(text, i) IN ParseList(text, r.i, Append(acc, r.v))

ParseValue(text, i) ==
    IF text[i] = "[" THEN ParseList(text, i + 1, <<>>) ELSE ParseNumber(text, i)

JsonLoads(text) == ParseValue(text, 1).v

RECURSIVE Depth(_)
Depth(v) ==
    IF v.t = "int" THEN 0
    ELSE IF Len(v.items) = 0 THEN 1
    ELSE 1 + Depth(v.items[1])

RECURSIVE Unnest(_)
Unnest(v) ==
    IF v.t = "int" THEN v.n
    ELSE [i \in 1..Len(v.items) |-> Unnest(v.items[i])]

\* numpy.array(nested list)
NpArray(v) == NdArray(Depth(v), Unnest(v))

(***************************************************************************)
(* str(dict): Python's repr of a dict of strings.                          *)
(***************************************************************************)
RECURSIVE ReprPairs(_, _)
ReprPairs(pairs, i) ==
    IF i > Len(pairs) THEN <<>>
    ELSE (IF i > 1 THEN <<",", " ">> ELSE <<>>)
         \o <<"'", pairs[i][1], "'", ":", " ", "'", pairs[i][2], "'">>
         \o ReprPairs(pairs, i + 1)

\* str(x): a str is itself, a dict is rendered as "{'k': 'v', ...}"
PyStrOf(x) ==
    IF x.t = "str" THEN x
    ELSE PyStr(<<"{">> \o ReprPairs(x.pairs, 1) \o <<"}">>)

(***************************************************************************)
(* The observable classes (database.py).                                   *)
(***************************************************************************)
Classes ==
    {"Multiplicity", "MeanPT", "IntegratedVn2", "IntegratedVn4",
     "PtDifferentialVn2", "PtDifferentialVn4", "TransverseEnergy", "PTFluc"}

\* the class attribute required_params of each subclass, in declared order
required_params ==
    [c \in Classes |->
        CASE c = "Multiplicity"      -> <<"particle_type", "rapidity_range", "pT_range">>
          [] c = "MeanPT"            -> <<"particle_type", "rapidity_range", "pT_range">>
          [] c = "IntegratedVn2"     -> <<"harmonic_n", "rapidity_range", "pT_range">>
          [] c = "IntegratedVn4"     -> <<"harmonic_n", "rapidity_range", "pT_range">>
          [] c = "PtDifferentialVn2" -> <<"harmonic_n", "rapidity_range", "pT_bins">>
          [] c = "PtDifferentialVn4" -> <<"harmonic_n", "rapidity_range", "pT_bins">>
          [] c = "TransverseEnergy"  -> <<"particle_type", "rapidity_range", "pT_range">>
          [] c = "PTFluc"            -> <<"particle_type", "rapidity_range", "pT_range">>]

get_required_params(cls) == required_params[cls]

NoObject == [t |-> "none"]

NoException == [type |-> "none"]

\* raise ValueError(f"Missing required parameter: {param} for {cls}")
MissingParameter(param, cls) ==
    [type |-> "ValueError", msg |-> "Missing required parameter", param |-> param, cls |-> cls]

\* a seeded fault of the loop: the missing parameter reported is the last one
RECURSIVE SetRequiredReportsLast(_, _, _, _)
SetRequiredReportsLast(cls, kwargs, i, done) ==
    LET req == required_params[cls]
        j   == Len(req) + 1 - i
    IN  IF i > Len(req) THEN [exc |-> NoException, attrs |-> [p \in done |-> kwargs[p]]]
        ELSE IF req[j] \in DOMAIN kwargs
             THEN SetRequiredReportsLast(cls, kwargs, i + 1, done \cup {req[j]})
             ELSE [exc |-> MissingParameter(req[j], cls), attrs |-> <<>>]

\* the loop "for param in self.required_params" of Observable.__init__,
\* from position i with the attributes in `done` already set
RECURSIVE SetRequired(_, _, _, _)
SetRequired(cls, kwargs, i, done) ==
    LET req == required_params[cls]
    IN  IF i > Len(req) THEN [exc |-> NoException, attrs |-> [p \in done |-> kwargs[p]]]
        ELSE IF req[i] \in DOMAIN kwargs
             THEN SetRequired(cls, kwargs, i + 1, done \cup {req[i]})
             ELSE [exc |-> MissingParameter(req[i], cls), attrs |-> <<>>]

\* Observable.__init__ as called through subclass cls: the nine common
\* arguments are stored as given, then the required parameters are set from
\* kwargs.  The result is the exception raised, or the object.
Observable__init__(cls, common, kwargs) ==
    LET r == SetRequired(cls, kwargs, 1, {})
    IN  IF r.exc.type # "none" THEN [exc |-> r.exc, obj |-> NoObject]
        ELSE [exc |-> NoException,
              obj |-> [t               |-> "Observable",
                       cls             |-> cls,
                       name            |-> common.name,
                       short_name      |-> common.short_name,
                       collision_system |-> common.collision_system,
                       collaboration   |-> common.collaboration,
                       reference       |-> common.reference,
                       centrality_bins |-> common.centrality_bins,
                       values          |-> common.values,
                       errors          |-> common.errors,
                       trigger_info    |-> common.trigger_info,
                       attrs           |-> r.attrs]]

(***************************************************************************)
(* Construction inputs.                                                    *)
(***************************************************************************)
KwNames == {"particle_type", "harmonic_n", "rapidity_range", "pT_range", "pT_bins"}

\* the value a script passes for each keyword (ranges in tenths)
KwValue ==
    [p \in KwNames |->
        CASE p = "particle_type"  -> PyStr(<<"charged">>)
          [] p = "harmonic_n"     -> PyInt(2)
          [] p = "rapidity_range" -> PyList(<<PyInt(-5), PyInt(5)>>)
          [] p = "pT_range"       -> PyList(<<PyInt(2), PyInt(50)>>)
          [] p = "pT_bins"        -> PyList(<<PyInt(2), PyInt(4), PyInt(6)>>)]

Kwargs(S) == [p \in S |-> KwValue[p]]

ALICE_cent_bins == NdArray(2, << <<0, 5>>, <<5, 10>> >>)

STAR_cent_bins == NdArray(2, << <<0, 5>>, <<5, 10>> >>)

RefALICE == PyDict(<< <<"arXiv", "arxiv:1012.1657">>, <<"doi", "10.1103/PhysRevLett.106.032301">> >>)

RefSTAR == PyDict(<< <<"arXiv", "arXiv:0808.2041">>, <<"doi", "10.1103/PhysRevC.79.034909">> >>)

Common(name, short, sys, collab, ref, bins, vals, errs) ==
    [name |-> name, short_name |-> short, collision_system |-> sys,
     collaboration |-> collab, reference |-> ref, centrality_bins |-> bins,
     values |-> vals, errors |-> errs,
     trigger_info |-> PyDict(<< <<"Trigger", "VZERO and SPD detectors">> >>)]

\* ALICE Pb-Pb charged-particle multiplicity (first two centrality classes)
alice_ch_mult ==
    [cls |-> "Multiplicity",
     common |-> Common("Charged-particle multiplicity", "dNch_deta", "Pb-Pb-2760", "ALICE",
                       RefALICE, ALICE_cent_bins,
                       NdArray(1, <<1601, 1294>>), NdArray(1, <<60, 49>>)),
     kwargs |-> Kwargs({"particle_type", "rapidity_range", "pT_range"})]

\* a STAR Au-Au measurement stored under the same short name
star_ch_mult ==
    [cls |-> "Multiplicity",
     common |-> Common("Charged-particle multiplicity", "dNch_deta", "Au-Au-200", "STAR",
                       RefSTAR, STAR_cent_bins,
                       NdArray(1, <<691, 558>>), NdArray(1, <<49, 40>>)),
     kwargs |-> Kwargs({"particle_type", "rapidity_range", "pT_range"})]

\* integrated v2{2} built without harmonic_n
alice_v2_int_no_harmonic ==
    [cls |-> "IntegratedVn2",
     common |-> Common("Elliptic flow coefficient v2{2}", "v22", "Pb-Pb-2760", "ALICE",
                       RefALICE, ALICE_cent_bins,
                       NdArray(1, <<27, 45>>), NdArray(1, <<1, 2>>)),
     kwargs |-> Kwargs({"rapidity_range", "pT_range"})]

\* integrated v2{2} whose errors array is one entry short
alice_v2_int_short_errors ==
    [cls |-> "IntegratedVn2",
     common |-> Common("Elliptic flow coefficient v2{2}", "v22", "Pb-Pb-2760", "ALICE",
                       RefALICE, ALICE_cent_bins,
                       NdArray(1, <<27, 45>>), NdArray(1, <<1>>)),
     kwargs |-> Kwargs({"harmonic_n", "rapidity_range", "pT_range"})]

\* mean pT given as plain Python lists instead of numpy arrays
star_mean_pT_lists ==
    [cls |-> "MeanPT",
     common |-> Common("Mean transverse momentum", "mean_pT_pion", "Au-Au-200", "STAR",
                       RefSTAR, STAR_cent_bins,
                       PlainList(1, <<42, 41>>), PlainList(1, <<3, 3>>)),
     kwargs |-> Kwargs({"particle_type", "rapidity_range", "pT_range"})]

\* the constructor calls a database.py run may hold
ScriptInputs ==
    {alice_ch_mult, star_ch_mult, alice_v2_int_no_harmonic,
     alice_v2_int_short_errors, star_mean_pT_lists}

\* every class with every subset of the keywords, on two sets of common fields
ConstructInputs ==
    {[cls |-> c, common |-> cm, kwargs |-> Kwargs(S)] :
        c \in Classes, cm \in {alice_ch_mult.common, star_mean_pT_lists.common},
        S \in SUBSET KwNames}

(***************************************************************************)
(* The store experimental_data.db (database.py) and the SQL it is given.   *)
(* A table is the sequence of its rows in rowid order.                     *)
(***************************************************************************)
Writers == {1, 2}

QueryNames == {"dNch_deta", "v22", "mean_pT_pion"}

VARIABLES
    launches,        \* script runs started so far
    pc,              \* per database.py run: the statement it is at
    args,            \* per run: the constructor call the script holds
    obs,             \* per run: the constructed object
    exc,             \* per run: the exception propagating, if any
    conn,            \* per run: "none", "open" or "closed"
    observable_id,   \* per run: the local of insert_integrated_observable_data
    tables,          \* whether the four tables exist (DDL is committed at once)
    committed,       \* the committed rows
    txn,             \* the rows as seen by the connection holding the write lock
    lockOwner,       \* the run holding the write lock, or 0
    savedLog,        \* history: the objects whose save was committed, in order
    rpc, rname, rconn, rres, rseen   \* the query_and_plot.py run

storeVars == <<tables, committed, txn, lockOwner, savedLog>>

writerVars == <<pc, args, obs, exc, conn, observable_id>>

readerVars == <<rpc, rname, rconn, rres, rseen>>

\* populate_db.py
VARIABLES
    ipc,             \* where the module-level code of populate_db.py is
    folder,          \* the .dat files of data_folder, as np.loadtxt reads them
    ifile, irow,     \* the file and the row the loop is at
    iconn,           \* the module's connection: "none", "open" or "closed"
    iexc,            \* the exception propagating, if any
    hicCommitted,    \* committed rows of experimental_data
    hicTxn,          \* the rows as the module's connection sees them
    hicLog,          \* history: the files whose insert_data call committed
    cpc, csv, cconn, cexc    \* a call of populate_database_from_csv

ingestVars == <<ipc, folder, ifile, irow, iconn, iexc, hicCommitted, hicTxn, hicLog>>

csvVars == <<cpc, csv, cconn, cexc>>

EmptyDb == [systems |-> <<>>, collaborations |-> <<>>, observables |-> <<>>,
            experimental_results |-> <<>>]

SeqMax(ids) == IF ids = {} THEN 0 ELSE CHOOSE m \in ids : \A x \in ids : x <= m

\* the rowid SQLite gives a row inserted without a value for its
\* INTEGER PRIMARY KEY column: one more than the largest in the table
NextRowid(ids) == SeqMax(ids) + 1

\* CREATE TABLE systems / collaborations / observables: an integer primary
\* key and a name column with no UNIQUE constraint
InsertObservableRow(db, name) ==
    [db EXCEPT !.observables =
        Append(@, [observable_id |->
                       NextRowid({db.observables[i].observable_id : i \in DOMAIN db.observables}),
                   observable_name |-> name])]

\* a seeded fault: the default system row is not inserted
InsertDefaultSystemOmitted(db) == db

\* INSERT OR IGNORE INTO systems (system_id, system_name) VALUES (1, 'Pb-Pb-2760')
InsertDefaultSystem(db) ==
    IF \E i \in DOMAIN db.systems : db.systems[i].system_id = 1 THEN db
    ELSE [db EXCEPT !.systems = Append(@, [system_id |-> 1, system_name |-> "Pb-Pb-2760"])]

\* INSERT OR IGNORE INTO collaborations (collaboration_id, collaboration_name) VALUES (1, 'ALICE')
InsertDefaultCollaboration(db) ==
    IF \E i \in DOMAIN db.collaborations : db.collaborations[i].collaboration_id = 1 THEN db
    ELSE [db EXCEPT !.collaborations =
              Append(@, [collaboration_id |-> 1, collaboration_name |-> "ALICE"])]

\* SELECT observable_id FROM observables WHERE observable_name = ?  with
\* fetchone()[0]: the first matching row of the table scan
SelectObservableId(db, name) ==
    LET hits == {i \in DOMAIN db.observables : db.observables[i].observable_name = name}
        first == CHOOSE i \in hits : \A j \in hits : i <= j
    IN  db.observables[first].observable_id

\* the fact row of insert_integrated_observable_data: the default ids 1 and 1,
\* the three series as JSON text, the reference through str()
ResultRow(db, o, oid) ==
    [result_id |->
         NextRowid({db.experimental_results[i].result_id : i \in DOMAIN db.experimental_results}),
     system_id |-> 1,
     collaboration_id |-> 1,
     observable_id |-> oid,
     centrality_bins |-> JsonDumps(tolist(o.centrality_bins)),
     value |-> JsonDumps(tolist(o.values)),
     error |-> JsonDumps(tolist(o.errors)),
     reference |-> PyStrOf(o.reference)]

InsertResultRow(db, o, oid) ==
    [db EXCEPT !.experimental_results = Append(@, ResultRow(db, o, oid))]

\* .tolist() exists on an ndarray only
HasToList(a) == a.t = "ndarray"

AttributeError(what) == [type |-> "AttributeError", msg |-> what]

OperationalError(what) == [type |-> "OperationalError", msg |-> what]

(***************************************************************************)
(* A run of database.py: the module-level constructor call, then           *)
(* populate_database() statement by statement.                             *)
(***************************************************************************)
NoArgs == [cls |-> "none"]

SetW(f, w, v) == [f EXCEPT ![w] = v]

\* python database.py: the run starts at the constructor call it holds
Launch(w) ==
    /\ pc[w] = "idle"
    /\ launches < MaxLaunches
    /\ launches' = launches + 1
    /\ \E a \in ScriptInputs : args' = SetW(args, w, a)
    /\ pc' = SetW(pc, w, "construct")
    /\ UNCHANGED <<obs, exc, conn, observable_id, storeVars, readerVars, ingestVars, csvVars>>

\* obs = Cls(name=..., ..., **kwargs)
Construct(w) ==
    /\ pc[w] = "construct"
    /\ LET r == Observable__init__(args[w].cls, args[w].common, args[w].kwargs)
       IN  /\ obs' = SetW(obs, w, r.obj)
           /\ exc' = SetW(exc, w, r.exc)
           /\ pc' = SetW(pc, w, IF r.exc.type = "none" THEN "connect" ELSE "raised")
    /\ UNCHANGED <<launches, args, conn, observable_id, storeVars, readerVars, ingestVars, csvVars>>

\* conn = sqlite3.connect("experimental_data.db"); cursor = conn.cursor()
Connect(w) ==
    /\ pc[w] = "connect"
    /\ conn' = SetW(conn, w, "open")
    /\ pc' = SetW(pc, w, "create_tables")
    /\ UNCHANGED <<launches, args, obs, exc, observable_id, storeVars, readerVars, ingestVars, csvVars>>

\* a seeded fault: the tables are dropped and created anew on every run
CreateTablesDropFirst(w) ==
    /\ pc[w] = "create_tables"
    /\ tables' = TRUE
    /\ committed' = EmptyDb
    /\ pc' = SetW(pc, w, "insert_defaults")
    /\ UNCHANGED <<launches, args, obs, exc, conn, observable_id,
                   txn, lockOwner, savedLog, readerVars, ingestVars, csvVars>>

\* the four CREATE TABLE IF NOT EXISTS: no transaction is open, so each is
\* committed as it runs
CreateTables(w) ==
    /\ pc[w] = "create_tables"
    /\ tables' = TRUE
    /\ pc' = SetW(pc, w, "insert_defaults")
    /\ UNCHANGED <<launches, args, obs, exc, conn, observable_id,
                   committed, txn, lockOwner, savedLog, readerVars, ingestVars, csvVars>>

\* the two INSERT OR IGNORE of the defaults: the first write of the
\* connection opens its transaction and takes the write lock
InsertDefaults(w) ==
    /\ pc[w] = "insert_defaults"
    /\ lockOwner = 0
    /\ lockOwner' = w
    /\ txn' = InsertDefaultCollaboration(InsertDefaultSystem(committed))
    /\ pc' = SetW(pc, w, "insert_observable")
    /\ UNCHANGED <<launches, args, obs, exc, conn, observable_id,
                   tables, committed, savedLog, readerVars, ingestVars, csvVars>>

\* the write lock is held by another connection for longer than the
\* connection's timeout: sqlite3.OperationalError: database is locked
BusyTimeout(w) ==
    /\ pc[w] = "insert_defaults"
    /\ lockOwner \notin {0, w}
    /\ exc' = SetW(exc, w, OperationalError("database is locked"))
    /\ pc' = SetW(pc, w, "raised")
    /\ UNCHANGED <<launches, args, obs, conn, observable_id, storeVars, readerVars, ingestVars, csvVars>>

\* a seeded fault: the connection runs in autocommit mode, so the row is
\* committed as it is inserted
InsertObservableAutocommit(w) ==
    /\ pc[w] = "insert_observable"
    /\ txn' = InsertObservableRow(txn, obs[w].short_name)
    /\ committed' = txn'
    /\ pc' = SetW(pc, w, "select_observable")
    /\ UNCHANGED <<launches, args, obs, exc, conn, observable_id,
                   tables, lockOwner, savedLog, readerVars, ingestVars, csvVars>>

\* INSERT INTO observables (observable_name) VALUES (obs.short_name)
InsertObservable(w) ==
    /\ pc[w] = "insert_observable"
    /\ txn' = InsertObservableRow(txn, obs[w].short_name)
    /\ pc' = SetW(pc, w, "select_observable")
    /\ UNCHANGED <<launches, args, obs, exc, conn, observable_id,
                   tables, committed, lockOwner, savedLog, readerVars, ingestVars, csvVars>>

\* SELECT observable_id ...; observable_id = cursor.fetchone()[0]
SelectObservable(w) ==
    /\ pc[w] = "select_observable"
    /\ observable_id' = SetW(observable_id, w, SelectObservableId(txn, obs[w].short_name))
    /\ pc' = SetW(pc, w, "insert_result")
    /\ UNCHANGED <<launches, args, obs, exc, conn, storeVars, readerVars, ingestVars, csvVars>>

\* INSERT INTO experimental_results: the parameter tuple is built first and
\* .tolist() raises AttributeError on anything but an ndarray
InsertResult(w) ==
    /\ pc[w] = "insert_result"
    /\ IF HasToList(obs[w].centrality_bins) /\ HasToList(obs[w].values)
          /\ HasToList(obs[w].errors)
       THEN /\ txn' = InsertResultRow(txn, obs[w], observable_id[w])
            /\ pc' = SetW(pc, w, "commit")
            /\ exc' = exc
       ELSE /\ txn' = txn
            /\ pc' = SetW(pc, w, "raised")
            /\ exc' = SetW(exc, w, AttributeError("'list' object has no attribute 'tolist'"))
    /\ UNCHANGED <<launches, args, obs, conn, observable_id,
                   tables, committed, lockOwner, savedLog, readerVars, ingestVars, csvVars>>

\* conn.commit()
Commit(w) ==
    /\ pc[w] = "commit"
    /\ committed' = txn
    /\ lockOwner' = 0
    /\ savedLog' = Append(savedLog, obs[w])
    /\ pc' = SetW(pc, w, "close")
    /\ UNCHANGED <<launches, args, obs, exc, conn, observable_id, tables, txn, readerVars, ingestVars, csvVars>>

\* conn.close()
Close(w) ==
    /\ pc[w] = "close"
    /\ conn' = SetW(conn, w, "closed")
    /\ pc' = SetW(pc, w, "done")
    /\ UNCHANGED <<launches, args, obs, exc, observable_id, storeVars, readerVars, ingestVars, csvVars>>

\* the interpreter exits, after the last statement or on the uncaught
\* exception: a connection still open is finalised, which rolls its
\* transaction back and frees the write lock
Exit(w) ==
    /\ pc[w] \in {"done", "raised"}
    /\ pc' = SetW(pc, w, "idle")
    /\ args' = SetW(args, w, NoArgs)
    /\ obs' = SetW(obs, w, NoObject)
    /\ exc' = SetW(exc, w, NoException)
    /\ conn' = SetW(conn, w, "none")
    /\ observable_id' = SetW(observable_id, w, 0)
    /\ IF lockOwner = w
       THEN lockOwner' = 0 /\ txn' = committed
       ELSE UNCHANGED <<lockOwner, txn>>
    /\ UNCHANGED <<launches, tables, committed, savedLog, readerVars, ingestVars, csvVars>>

(***************************************************************************)
(* The read path (query_and_plot.py).                                      *)
(***************************************************************************)
\* the names bound at module level in query_and_plot.py: its imports and
\* its functions.  json is not among them
QueryModuleGlobals ==
    {"sqlite3", "plt", "np", "connect_to_database", "query_observables",
     "plot_integrated_observable", "plot_differential_observable"}

NoValue == [t |-> "none"]

NoResult == [exc |-> NoException, value |-> NoValue]

\* SELECT centrality_bins, value, error, reference FROM experimental_results
\* JOIN observables ON ... WHERE observables.observable_name = ?:
\* the fact rows whose observable row carries the name, in scan order
JoinByName(db, name) ==
    LET er == db.experimental_results
        Hit(i) == \E j \in DOMAIN db.observables :
                     /\ db.observables[j].observable_id = er[i].observable_id
                     /\ db.observables[j].observable_name = name
    IN  SelectSeq([i \in DOMAIN er |-> [i |-> i, hit |-> Hit(i)]], LAMBDA x : x.hit)

\* the tuple query_observables returns for a fetched row
DecodeRow(row) ==
    [t |-> "tuple",
     centrality_bins |-> NpArray(JsonLoads(row.centrality_bins)),
     values |-> NpArray(JsonLoads(row.value)),
     errors |-> NpArray(JsonLoads(row.error)),
     reference |-> row.reference]

\* query_observables(cursor, observable_name) on the committed store
query_observables(hasTables, db, observable_name) ==
    IF ~hasTables
    THEN [exc |-> OperationalError("no such table: experimental_results"), value |-> NoValue]
    ELSE LET hits == JoinByName(db, observable_name)
         IN  IF hits = <<>>
             THEN [exc |-> [type |-> "ValueError", msg |-> "No data found for observable",
                            name |-> observable_name],
                   value |-> NoValue]
             ELSE IF "json" \notin QueryModuleGlobals
             THEN [exc |-> [type |-> "NameError", msg |-> "name 'json' is not defined"],
                   value |-> NoValue]
             ELSE [exc |-> NoException,
                   value |-> DecodeRow(db.experimental_results[hits[1].i])]

\* python query_and_plot.py: conn = connect_to_database(); cursor = conn.cursor()
RLaunch ==
    /\ rpc = "idle"
    /\ launches < MaxLaunches
    /\ launches' = launches + 1
    /\ \E n \in QueryNames : rname' = n
    /\ rconn' = "open"
    /\ rpc' = "query"
    /\ UNCHANGED <<rres, rseen, writerVars, storeVars, ingestVars, csvVars>>

\* the try block: query_observables(cursor, observable_name); a ValueError
\* is caught and printed, anything else propagates
RQuery ==
    /\ rpc = "query"
    /\ rres' = query_observables(tables, committed, rname)
    /\ rseen' = Len(savedLog)
    /\ rpc' = IF rres'.exc.type \in {"none", "ValueError"} THEN "close" ELSE "raised"
    /\ UNCHANGED <<launches, rname, rconn, writerVars, storeVars, ingestVars, csvVars>>

\* conn.close()
RClose ==
    /\ rpc = "close"
    /\ rconn' = "closed"
    /\ rpc' = "done"
    /\ UNCHANGED <<launches, rname, rres, rseen, writerVars, storeVars, ingestVars, csvVars>>

\* the interpreter exits
RExit ==
    /\ rpc \in {"done", "raised"}
    /\ rpc' = "idle"
    /\ rconn' = "none"
    /\ rname' = "none"
    /\ rres' = NoResult
    /\ rseen' = 0
    /\ UNCHANGED <<launches, writerVars, storeVars, ingestVars, csvVars>>

(***************************************************************************)
(* populate_db.py: the module-level ingestion of the .dat files into       *)
(* hic_experimental_data.db through the module's one connection, and       *)
(* populate_database_from_csv.                                             *)
(***************************************************************************)
Num(n) == [nan |-> FALSE, n |-> n]

NaN == [nan |-> TRUE, n |-> 0]

\* a row of a .dat file: cent_low, cent_high, cent_mid, value, error
DatRow(val, err) == <<Num(0), Num(5), Num(2), val, err>>

\* what np.loadtxt returns for a file: the number of columns and the rows
DatFile(ncols, rows) == [ncols |-> ncols, rows |-> rows]

TwoRowFile == DatFile(5, <<DatRow(Num(1601), Num(60)), DatRow(Num(1294), Num(49))>>)

\* a file whose second row holds a NaN value
NaNRowFile == DatFile(5, <<DatRow(Num(1601), Num(60)), DatRow(NaN, Num(49))>>)

DatFiles ==
    {DatFile(5, <<>>),
     DatFile(5, <<DatRow(Num(1601), Num(60))>>),
     TwoRowFile,
     NaNRowFile,
     DatFile(4, <<SubSeq(DatRow(Num(1601), Num(60)), 1, 4),
                  SubSeq(DatRow(Num(1294), Num(49)), 1, 4)>>)}

\* data_folder holding one file, or a well-formed file and then one that is
\* well-formed or fails part-way
Folders ==
    {<<f>> : f \in DatFiles} \cup {<<TwoRowFile, f>> : f \in {TwoRowFile, NaNRowFile}}

\* np.loadtxt squeezes a one-row file to a one-dimensional array, whose
\* iteration yields scalars
IsOneDimensional(file) == Len(file.rows) = 1

\* the statement of insert_data's loop body that raises on this row, if any:
\* row[:5] on a scalar, the unpacking of fewer than five values, or the
\* NOT NULL columns refusing a NaN (bound as NULL)
RowFault(file, r) ==
    IF IsOneDimensional(file)
    THEN [type |-> "IndexError", msg |-> "invalid index to scalar variable"]
    ELSE IF file.ncols < Len(DatRow(NaN, NaN))
    THEN [type |-> "ValueError", msg |-> "not enough values to unpack"]
    ELSE IF \E k \in 1..Len(DatRow(NaN, NaN)) : file.rows[r][k].nan
    THEN [type |-> "IntegrityError", msg |-> "NOT NULL constraint failed"]
    ELSE NoException

\* the row insert_data writes for (system, collaboration, observable, row, reference)
DataRow(id, observable, row) ==
    [id |-> id, system |-> "Pb-Pb-2760", collaboration |-> "ALICE", observable |-> observable,
     centrality_low |-> row[1].n, centrality_high |-> row[2].n,
     centrality_mid |-> row[3].n, value |-> row[4].n, error |-> row[5].n]

\* the rows a completed insert_data call adds after the rows `before`
RECURSIVE FileRows(_, _, _, _)
FileRows(before, k, file, r) ==
    IF r > Len(file.rows) THEN before
    ELSE FileRows(Append(before, DataRow(Len(before) + 1, k, file.rows[r])), k, file, r + 1)

\* the state the loop over the files is in once file k is done with
AfterFile(k) == IF k > Len(folder) THEN "close" ELSE "insert"

\* python populate_db.py: connect, CREATE TABLE IF NOT EXISTS
\* experimental_data, and enter the loop over the files
ILaunch ==
    /\ ipc = "idle"
    /\ launches < MaxLaunches
    /\ launches' = launches + 1
    /\ \E d \in Folders : folder' = d
    /\ iconn' = "open"
    /\ ifile' = 1 /\ irow' = 1
    /\ ipc' = "insert"
    /\ UNCHANGED <<iexc, hicCommitted, hicTxn, hicLog, csvVars,
                   writerVars, storeVars, readerVars>>

\* one turn of "for row in data" in insert_data
IInsertRow ==
    /\ ipc = "insert"
    /\ LET file == folder[ifile]
       IN  IF irow > Len(file.rows)
           THEN /\ ipc' = "commit"
                /\ UNCHANGED <<irow, iexc, hicTxn>>
           ELSE IF RowFault(file, irow).type # "none"
           THEN /\ iexc' = RowFault(file, irow)
                /\ ipc' = "raised"
                /\ UNCHANGED <<irow, hicTxn>>
           ELSE /\ hicTxn' = Append(hicTxn, DataRow(Len(hicTxn) + 1, ifile, file.rows[irow]))
                /\ irow' = irow + 1
                /\ UNCHANGED <<ipc, iexc>>
    /\ UNCHANGED <<launches, folder, ifile, iconn, hicCommitted, hicLog, csvVars,
                   writerVars, storeVars, readerVars>>

\* conn.commit() at the end of insert_data, and on to the next file
ICommit ==
    /\ ipc = "commit"
    /\ hicCommitted' = hicTxn
    /\ hicLog' = Append(hicLog, [k |-> ifile, file |-> folder[ifile]])
    /\ ifile' = ifile + 1
    /\ irow' = 1
    /\ ipc' = AfterFile(ifile + 1)
    /\ UNCHANGED <<launches, folder, iconn, iexc, hicTxn, csvVars,
                   writerVars, storeVars, readerVars>>

\* conn.close() after the loop: the module is loaded
IClose ==
    /\ ipc = "close"
    /\ iconn' = "closed"
    /\ ipc' = "loaded"
    /\ UNCHANGED <<launches, folder, ifile, irow, iexc, hicCommitted, hicTxn, hicLog,
                   csvVars, writerVars, storeVars, readerVars>>

\* the interpreter exits; an open connection is finalised and its
\* transaction rolled back
IExit ==
    /\ ipc \in {"loaded", "raised"}
    /\ cpc = "idle"
    /\ ipc' = "idle"
    /\ folder' = <<>>
    /\ ifile' = 0 /\ irow' = 0
    /\ iconn' = "none"
    /\ iexc' = NoException
    /\ hicTxn' = hicCommitted
    /\ UNCHANGED <<launches, hicCommitted, hicLog, csvVars,
                   writerVars, storeVars, readerVars>>

\* the CSV files populate_database_from_csv may be given
CsvColumns == {"cent_low", "cent_high", "val", "err"}

CsvFile(exists, columns, nrows) == [exists |-> exists, columns |-> columns, nrows |-> nrows]

NoCsv == CsvFile(FALSE, {}, 0)

CsvFiles ==
    {CsvFile(FALSE, {}, 0),
     CsvFile(TRUE, CsvColumns, 0),
     CsvFile(TRUE, CsvColumns, 2),
     CsvFile(TRUE, CsvColumns \ {"err"}, 2)}

\* expected_columns in the order the function checks them
expected_columns == <<"cent_low", "cent_high", "val", "err">>

\* the tables of hic_experimental_data.db
HicTables == {"experimental_data"}

\* what populate_database_from_csv raises after opening its connection, if
\* anything: pd.read_csv on a missing file, the first expected column not
\* in the data, or the first INSERT INTO experimental_results
CsvFault(file) ==
    IF ~file.exists
    THEN [type |-> "FileNotFoundError", msg |-> "No such file or directory"]
    ELSE IF \E k \in DOMAIN expected_columns : expected_columns[k] \notin file.columns
    THEN LET k == CHOOSE k \in DOMAIN expected_columns :
                     /\ expected_columns[k] \notin file.columns
                     /\ \A j \in 1..(k - 1) : expected_columns[j] \in file.columns
         IN  [type |-> "ValueError", msg |-> "Expected column not found in CSV file",
              col |-> expected_columns[k]]
    ELSE IF file.nrows > 0 /\ "experimental_results" \notin HicTables
    THEN OperationalError("no such table: experimental_results")
    ELSE NoException

\* populate_database_from_csv(file_path, ...): conn = sqlite3.connect(db_path)
CsvCall ==
    /\ ipc = "loaded"
    /\ cpc = "idle"
    /\ launches < MaxLaunches
    /\ launches' = launches + 1
    /\ \E f \in CsvFiles : csv' = f
    /\ cconn' = "open"
    /\ cpc' = "body"
    /\ UNCHANGED <<cexc, ingestVars, writerVars, storeVars, readerVars>>

\* the body after the connect: it raises, or commits nothing new and closes
CsvBody ==
    /\ cpc = "body"
    /\ IF CsvFault(csv).type # "none"
       THEN cexc' = CsvFault(csv) /\ cpc' = "raised" /\ cconn' = cconn
       ELSE cexc' = cexc /\ cpc' = "returned" /\ cconn' = "closed"
    /\ UNCHANGED <<launches, csv, ingestVars, writerVars, storeVars, readerVars>>

\* the call is over: its frame and the connection it held are released
CsvReturn ==
    /\ cpc \in {"returned", "raised"}
    /\ cpc' = "idle"
    /\ csv' = NoCsv
    /\ cconn' = "none"
    /\ cexc' = NoException
    /\ UNCHANGED <<launches, ingestVars, writerVars, storeVars, readerVars>>

(***************************************************************************)
(* Specifications.                                                         *)
(***************************************************************************)
vars == <<launches, writerVars, storeVars, readerVars, ingestVars, csvVars>>

Init ==
    /\ launches = 0
    /\ pc = [w \in Writers |-> "idle"]
    /\ args = [w \in Writers |-> NoArgs]
    /\ obs = [w \in Writers |-> NoObject]
    /\ exc = [w \in Writers |-> NoException]
    /\ conn = [w \in Writers |-> "none"]
    /\ observable_id = [w \in Writers |-> 0]
    /\ tables = FALSE
    /\ committed = EmptyDb
    /\ txn = EmptyDb
    /\ lockOwner = 0
    /\ savedLog = <<>>
    /\ rpc = "idle" /\ rname = "none" /\ rconn = "none" /\ rres = NoResult /\ rseen = 0
    /\ ipc = "idle" /\ folder = <<>> /\ ifile = 0 /\ irow = 0 /\ iconn = "none"
    /\ iexc = NoException /\ hicCommitted = <<>> /\ hicTxn = <<>> /\ hicLog = <<>>
    /\ cpc = "idle" /\ csv = NoCsv /\ cconn = "none" /\ cexc = NoException

Next ==
    \/ \E w \in Writers : Launch(w)
    \/ \E w \in Writers : Construct(w)
    \/ \E w \in Writers : Connect(w)
    \/ \E w \in Writers : CreateTables(w)
    \/ \E w \in Writers : InsertDefaults(w)
    \/ \E w \in Writers : BusyTimeout(w)
    \/ \E w \in Writers : InsertObservable(w)
    \/ \E w \in Writers : SelectObservable(w)
    \/ \E w \in Writers : InsertResult(w)
    \/ \E w \in Writers : Commit(w)
    \/ \E w \in Writers : Close(w)
    \/ \E w \in Writers : Exit(w)
    \/ RLaunch
    \/ RQuery
    \/ RClose
    \/ RExit
    \/ ILaunch
    \/ IInsertRow
    \/ ICommit
    \/ IClose
    \/ IExit
    \/ CsvCall
    \/ CsvBody
    \/ CsvReturn

Spec == Init /\ [][Next]_vars

\* database.py and query_and_plot.py alone, on experimental_data.db
NextStore ==
    \/ \E w \in Writers : Launch(w)
    \/ \E w \in Writers : Construct(w)
    \/ \E w \in Writers : Connect(w)
    \/ \E w \in Writers : CreateTables(w)
    \/ \E w \in Writers : InsertDefaults(w)
    \/ \E w \in Writers : BusyTimeout(w)
    \/ \E w \in Writers : InsertObservable(w)
    \/ \E w \in Writers : SelectObservable(w)
    \/ \E w \in Writers : InsertResult(w)
    \/ \E w \in Writers : Commit(w)
    \/ \E w \in Writers : Close(w)
    \/ \E w \in Writers : Exit(w)
    \/ RLaunch
    \/ RQuery
    \/ RClose
    \/ RExit

SpecStore == Init /\ [][NextStore]_vars

\* the writing scripts alone: database.py runs and the populate_db.py ingestion
NextSave ==
    \/ \E w \in Writers : Launch(w)
    \/ \E w \in Writers : Construct(w)
    \/ \E w \in Writers : Connect(w)
    \/ \E w \in Writers : CreateTables(w)
    \/ \E w \in Writers : InsertDefaults(w)
    \/ \E w \in Writers : BusyTimeout(w)
    \/ \E w \in Writers : InsertObservable(w)
    \/ \E w \in Writers : SelectObservable(w)
    \/ \E w \in Writers : InsertResult(w)
    \/ \E w \in Writers : Commit(w)
    \/ \E w \in Writers : Close(w)
    \/ \E w \in Writers : Exit(w)
    \/ ILaunch
    \/ IInsertRow
    \/ ICommit
    \/ IClose
    \/ IExit

SpecSave == Init /\ [][NextSave]_vars

\* the constructor alone: a database.py run at its constructor call, over
\* every class and every subset of the keywords
InitConstruct ==
    /\ launches = 1
    /\ pc = [w \in Writers |-> IF w = 1 THEN "construct" ELSE "idle"]
    /\ \E a \in ConstructInputs : args = [w \in Writers |-> IF w = 1 THEN a ELSE NoArgs]
    /\ obs = [w \in Writers |-> NoObject]
    /\ exc = [w \in Writers |-> NoException]
    /\ conn = [w \in Writers |-> "none"]
    /\ observable_id = [w \in Writers |-> 0]
    /\ tables = FALSE
    /\ committed = EmptyDb
    /\ txn = EmptyDb
    /\ lockOwner = 0
    /\ savedLog = <<>>
    /\ rpc = "idle" /\ rname = "none" /\ rconn = "none" /\ rres = NoResult /\ rseen = 0
    /\ ipc = "idle" /\ folder = <<>> /\ ifile = 0 /\ irow = 0 /\ iconn = "none"
    /\ iexc = NoException /\ hicCommitted = <<>> /\ hicTxn = <<>> /\ hicLog = <<>>
    /\ cpc = "idle" /\ csv = NoCsv /\ cconn = "none" /\ cexc = NoException

NextConstruct ==
    \/ \E w \in Writers : Construct(w)
    \/ \E w \in Writers : Connect(w)

SpecConstruct == InitConstruct /\ [][NextConstruct]_vars

(***************************************************************************)
(* Properties.                                                             *)
(***************************************************************************)
\* the positions of the required parameters of the call that kwargs lacks
MissingPositions(a) ==
    {i \in DOMAIN required_params[a.cls] : required_params[a.cls][i] \notin DOMAIN a.kwargs}

FirstMissing(a) ==
    required_params[a.cls][CHOOSE i \in MissingPositions(a) : \A j \in MissingPositions(a) : i <= j]

StoreUntouched ==
    /\ tables = FALSE
    /\ committed = EmptyDb
    /\ txn = EmptyDb
    /\ lockOwner = 0

\* C2: a constructor call that lacks a required parameter of its class raises
\* the validation error (Python's ValueError) naming the first missing
\* parameter in the declared order; no object is produced, no connection is
\* opened and the store is left as it was.
C2_MissingParameterFails ==
    \A w \in Writers :
        (pc[w] \notin {"idle", "construct"} /\ MissingPositions(args[w]) # {})
        => /\ pc[w] = "raised"
           /\ exc[w].type = "ValueError"
           /\ exc[w].msg = "Missing required parameter"
           /\ exc[w].param = FirstMissing(args[w])
           /\ exc[w].cls = args[w].cls
           /\ obs[w] = NoObject
           /\ conn[w] = "none"
           /\ StoreUntouched

\* IntegratedVn2 built without harmonic_n and without pT_range: the error
\* names harmonic_n
C2_Witness ==
    \E w \in Writers :
        /\ pc[w] = "raised"
        /\ args[w].cls = "IntegratedVn2"
        /\ DOMAIN args[w].kwargs = {"rapidity_range", "particle_type"}
        /\ exc[w].type = "ValueError"
        /\ exc[w].param = "harmonic_n"

\* the query of the query_and_plot.py run has been answered
ReaderAnswered == rpc \in {"close", "done", "raised"}

\* the name the observables table gives the observable of fact row k
ObservableNameOf(db, k) ==
    LET oid == db.experimental_results[k].observable_id
        j == CHOOSE j \in DOMAIN db.observables : db.observables[j].observable_id = oid
    IN  db.observables[j].observable_name

\* the committed fact rows that carried the queried name when the query ran
\* (rows are only ever appended, one per committed save)
HitsAtQuery ==
    {k \in 1..rseen : ObservableNameOf(committed, k) = rname}

\* values, errors and centrality_bins of an object have one length
SameLengths(o) ==
    /\ PyLen(o.values) = PyLen(o.errors)
    /\ PyLen(o.values) = PyLen(o.centrality_bins)

\* C1: loading by short name right after a valid object was saved returns
\* the centrality bins, values, errors and reference that were saved.
C1_RoundTrip ==
    (/\ ReaderAnswered
     /\ rseen >= 1
     /\ savedLog[rseen].short_name = rname
     /\ SameLengths(savedLog[rseen]))
    => /\ rres.exc.type = "none"
       /\ rres.value.centrality_bins = savedLog[rseen].centrality_bins
       /\ rres.value.values = savedLog[rseen].values
       /\ rres.value.errors = savedLog[rseen].errors
       /\ rres.value.reference = savedLog[rseen].reference

\* no natural key has two rows in its dimension table
OneRowPerKey(db) ==
    /\ \A i, j \in DOMAIN db.systems :
          db.systems[i].system_name = db.systems[j].system_name => i = j
    /\ \A i, j \in DOMAIN db.collaborations :
          db.collaborations[i].collaboration_name = db.collaborations[j].collaboration_name
          => i = j
    /\ \A i, j \in DOMAIN db.observables :
          db.observables[i].observable_name = db.observables[j].observable_name => i = j

\* C3: resolving an observable name that earlier saves resolved gives the id
\* they were given, and every dimension table holds one row per key.
C3_ResolveIdempotent ==
    /\ \A w \in Writers :
          pc[w] \in {"insert_result", "commit"}
          => \A k \in DOMAIN committed.experimental_results :
                savedLog[k].short_name = obs[w].short_name
                => committed.experimental_results[k].observable_id = observable_id[w]
    /\ OneRowPerKey(committed)

\* C4: when more than one fact row carries the queried name, the load answers
\* with all of them or refuses with a typed error asking for the
\* (collision system, collaboration, reference) triple.
C4_NoArbitraryFirstMatch ==
    (ReaderAnswered /\ Cardinality(HitsAtQuery) > 1)
    => \/ /\ rres.exc.type = "none"
          /\ rres.value.t = "rows"
          /\ Len(rres.value.rows) = Cardinality(HitsAtQuery)
       \/ rres.exc.type = "ValueError"

\* C5: each fact row references the systems row and the collaborations row
\* named after the collision_system and collaboration of the object saved.
C5_DimensionsFromEntity ==
    \A k \in DOMAIN committed.experimental_results :
        LET row == committed.experimental_results[k]
            o == savedLog[k]
        IN  /\ \E i \in DOMAIN committed.systems :
                  /\ committed.systems[i].system_id = row.system_id
                  /\ committed.systems[i].system_name = o.collision_system
            /\ \E i \in DOMAIN committed.collaborations :
                  /\ committed.collaborations[i].collaboration_id = row.collaboration_id
                  /\ committed.collaborations[i].collaboration_name = o.collaboration

\* C6: a load of a name with no fact row ends in the not-found outcome the
\* caller handles (the ValueError the script catches); nothing propagates.
C6_NotFoundOutcome ==
    (ReaderAnswered /\ HitsAtQuery = {})
    => /\ rres.exc.type = "ValueError"
       /\ rres.exc.msg = "No data found for observable"
       /\ rpc # "raised"

\* the length of the series a JSON text column holds
TextLen(text) == Len(JsonLoads(text).items)

\* C7: a constructor call whose values, errors and centrality_bins differ in
\* length fails, and no committed fact row holds series of different lengths.
C7_LengthMismatchRejected ==
    /\ \A w \in Writers :
          (pc[w] \notin {"idle", "construct"} /\ ~SameLengths(args[w].common))
          => pc[w] = "raised" /\ obs[w] = NoObject /\ conn[w] = "none"
    /\ \A k \in DOMAIN committed.experimental_results :
          LET row == committed.experimental_results[k]
          IN  /\ TextLen(row.value) = TextLen(row.error)
              /\ TextLen(row.value) = TextLen(row.centrality_bins)

\* the rows of experimental_data after the logged insert_data calls 1..n
RECURSIVE LoggedRows(_, _)
LoggedRows(log, n) ==
    IF n = 0 THEN <<>>
    ELSE FileRows(LoggedRows(log, n - 1), log[n].k, log[n].file, 1)

\* C8: the committed store holds exactly what the saves that reached their
\* commit wrote: per committed save one observables row and one complete fact
\* row, the default dimension rows once any save committed, and in
\* experimental_data the rows of the files whose insert_data call completed;
\* a save that failed part-way has left nothing.
C8_SaveAtomic ==
    /\ Len(committed.experimental_results) = Len(savedLog)
    /\ Len(committed.observables) = Len(savedLog)
    /\ \A k \in DOMAIN savedLog :
          LET row == committed.experimental_results[k]
              o == savedLog[k]
          IN  /\ committed.observables[k].observable_name = o.short_name
              /\ \E j \in DOMAIN committed.observables :
                    committed.observables[j].observable_id = row.observable_id
              /\ row.centrality_bins = JsonDumps(tolist(o.centrality_bins))
              /\ row.value = JsonDumps(tolist(o.values))
              /\ row.error = JsonDumps(tolist(o.errors))
              /\ row.reference = PyStrOf(o.reference)
    /\ Len(committed.systems) = (IF savedLog = <<>> THEN 0 ELSE 1)
    /\ Len(committed.collaborations) = (IF savedLog = <<>> THEN 0 ELSE 1)
    /\ hicCommitted = LoggedRows(hicLog, Len(hicLog))

\* after one committed save: a database.py run that failed between its
\* observables insert and its fact insert, and an ingestion that failed at
\* the second row of a file
C8_Witness ==
    /\ Len(savedLog) >= 1
    /\ \E w \in Writers :
          /\ pc[w] = "raised"
          /\ exc[w].type = "AttributeError"
          /\ lockOwner = w
          /\ Len(txn.observables) > Len(committed.observables)
    /\ ipc = "raised"
    /\ iexc.type = "IntegrityError"
    /\ Len(hicTxn) > Len(hicCommitted)

\* C9: once two concurrent runs have both committed their save, no natural
\* key has two surrogate ids.
C9_ConcurrentWritersOneId ==
    (\A w \in Writers : pc[w] \in {"close", "done"}) => OneRowPerKey(committed)

\* C10: a run or call that failed after opening its connection has closed it
\* and holds no uncommitted write.
C10_ConnectionReleased ==
    /\ \A w \in Writers :
          (pc[w] = "raised" /\ conn[w] # "none") => (conn[w] = "closed" /\ lockOwner # w)
    /\ rpc = "raised" => rconn = "closed"
    /\ ipc = "raised" => (iconn = "closed" /\ hicTxn = hicCommitted)
    /\ cpc = "raised" => cconn = "closed"

\* every row of the sequence `before` is still there, unchanged, in `after`
RowsKept(before, after) ==
    \A i \in DOMAIN before : i \in DOMAIN after /\ after[i] = before[i]

\* C11: no step changes or removes a committed systems or collaborations
\* row: whatever runs, populate_database again included, each row keeps its
\* id and its name.
C11_DimensionsAppendOnly ==
    [][/\ RowsKept(committed.systems, committed'.systems)
       /\ RowsKept(committed.collaborations, committed'.collaborations)]_vars

\* populate_database has committed twice and the default rows are the ones
\* the first run inserted
C11_Witness ==
    /\ Len(savedLog) >= 2
    /\ committed.systems = <<[system_id |-> 1, system_name |-> "Pb-Pb-2760"]>>
    /\ committed.collaborations =
          <<[collaboration_id |-> 1, collaboration_name |-> "ALICE"]>>

\* the keywords of a constructor call that its class does not require
ExtraKeywords(a) ==
    DOMAIN a.kwargs \ {required_params[a.cls][i] : i \in DOMAIN required_params[a.cls]}

\* C12: a constructor call given a keyword its class does not require either
\* raises the validation error or returns an object that holds that keyword.
C12_ExtraFieldsKept ==
    \A w \in Writers :
        (pc[w] \notin {"idle", "construct"} /\ ExtraKeywords(args[w]) # {})
        => \/ pc[w] = "raised" /\ exc[w].type = "ValueError"
           \/ ExtraKeywords(args[w]) \subseteq DOMAIN obs[w].attrs

\* C13: every committed fact row references an existing systems row, an
\* existing collaborations row and an existing observables row, result ids
\* are distinct, and there is one fact row per committed save.
C13_ReferentialIntegrity ==
    /\ \A k \in DOMAIN committed.experimental_results :
          LET row == committed.experimental_results[k]
          IN  /\ \E i \in DOMAIN committed.systems :
                    committed.systems[i].system_id = row.system_id
              /\ \E i \in DOMAIN committed.collaborations :
                    committed.collaborations[i].collaboration_id = row.collaboration_id
              /\ \E i \in DOMAIN committed.observables :
                    committed.observables[i].observable_id = row.observable_id
              /\ \A j \in DOMAIN committed.experimental_results :
                    committed.experimental_results[j].result_id = row.result_id => j = k
    /\ Len(committed.experimental_results) = Len(savedLog)

\* two committed saves of different observables: two fact rows, each with
\* its own observables row
C13_Witness ==
    /\ Len(committed.experimental_results) = 2
    /\ committed.experimental_results[1].observable_id
          # committed.experimental_results[2].observable_id

=============================================================================
